---- MODULE Spec2Model ----
(***************************************************************************)
(* A model of HunyuanVideoLoraLoader (src/lora_loader.py).                 *)
(*                                                                         *)
(* Python strings are sequences of one-character strings, so that          *)
(* startswith, "in", split and replace are computed character by           *)
(* character.  A dict is the sequence of its items in insertion order,     *)
(* each item a record [k |-> key, v |-> value].  A tensor is a record      *)
(* [shape, v, sq]: every element of the tensor equals v * sqrt(sq[1] /     *)
(* sq[2]), with sq a fraction in lowest terms; a tensor read from a file   *)
(* has sq = <<1, 1>>.                                                      *)
(***************************************************************************)
EXTENDS Integers, Sequences, FiniteSets, TLC

(***************************************************************************)
(* Bounds of the model.                                                    *)
(***************************************************************************)
\* longest dict drawn as an input of the pure functions
MaxLen == 3

(***************************************************************************)
(* String literals of the source.                                          *)
(***************************************************************************)
S_diffusion_model_dot == <<"d","i","f","f","u","s","i","o","n","_","m","o","d","e","l",".">>
S_transformer_dot == <<"t","r","a","n","s","f","o","r","m","e","r",".">>
S_lora_unet_ == <<"l","o","r","a","_","u","n","e","t","_">>
S_alpha == <<"a","l","p","h","a">>
S_lora_down == <<"l","o","r","a","_","d","o","w","n">>
S_lora_up == <<"l","o","r","a","_","u","p">>
S_single_blocks == <<"s","i","n","g","l","e","_","b","l","o","c","k","s">>
S_double_blocks == <<"d","o","u","b","l","e","_","b","l","o","c","k","s">>
S_all == <<"a","l","l">>
S_double_dot_blocks_dot == <<"d","o","u","b","l","e",".","b","l","o","c","k","s",".">>
S_double_blocks_dot == <<"d","o","u","b","l","e","_","b","l","o","c","k","s",".">>
S_single_dot_blocks_dot == <<"s","i","n","g","l","e",".","b","l","o","c","k","s",".">>
S_single_blocks_dot == <<"s","i","n","g","l","e","_","b","l","o","c","k","s",".">>
S_img_dot == <<"i","m","g",".">>
S_img_ == <<"i","m","g","_">>
S_txt_dot == <<"t","x","t",".">>
S_txt_ == <<"t","x","t","_">>
S_attn_dot == <<"a","t","t","n",".">>
S_attn_ == <<"a","t","t","n","_">>
S_diffusion_model == <<"d","i","f","f","u","s","i","o","n","_","m","o","d","e","l">>
S_lora_A_weight == <<".","l","o","r","a","_","A",".","w","e","i","g","h","t">>
S_lora_B_weight == <<".","l","o","r","a","_","B",".","w","e","i","g","h","t">>
S_Lora_ == <<"L","o","r","a"," ">>
S_not_found_at == <<" ","n","o","t"," ","f","o","u","n","d"," ","a","t"," ">>

\* the three values of the blocks_type input
BlocksTypes == {S_all, S_single_blocks, S_double_blocks}

(***************************************************************************)
(* Python's str operations.                                                *)
(***************************************************************************)
\* s.startswith(p)
StartsWith(s, p) == Len(s) >= Len(p) /\ \A j \in 1..Len(p) : s[j] = p[j]

\* p in s
Contains(s, p) ==
    \E i \in 1..(Len(s) - Len(p) + 1) : \A j \in 1..Len(p) : s[i + j - 1] = p[j]

\* s[n:]
DropFirst(s, n) == SubSeq(s, n + 1, Len(s))

\* s.split(".", 1)[0]
BeforeFirstDot(s) ==
    IF \E i \in 1..Len(s) : s[i] = "."
    THEN SubSeq(s, 1, (CHOOSE i \in 1..Len(s) :
                        s[i] = "." /\ \A j \in 1..(i - 1) : s[j] # ".") - 1)
    ELSE s

\* whether p occurs in s at index i
OccursAt(s, p, i) == i + Len(p) - 1 <= Len(s) /\ \A j \in 1..Len(p) : s[i + j - 1] = p[j]

\* s.find(p) + 1, for p in s
FirstIndex(s, p) ==
    CHOOSE i \in 1..Len(s) : OccursAt(s, p, i) /\ \A h \in 1..(i - 1) : ~OccursAt(s, p, h)

\* s.replace(old, new): the non-overlapping occurrences, left to right
RECURSIVE Replace(_, _, _)
Replace(s, old, new) ==
    IF ~Contains(s, old) THEN s
    ELSE LET i == FirstIndex(s, old)
         IN  SubSeq(s, 1, i - 1) \o new \o Replace(DropFirst(s, i + Len(old) - 1), old, new)

(***************************************************************************)
(* Python's dict operations, on the sequence of items.                     *)
(***************************************************************************)
\* key in d
DictHas(d, key) == \E i \in 1..Len(d) : d[i].k = key

\* d[key]
DictGet(d, key) == d[CHOOSE i \in 1..Len(d) : d[i].k = key].v

\* d[key] = value: a present key keeps its place, a new one is appended
DictSet(d, key, value) ==
    IF DictHas(d, key)
    THEN [i \in 1..Len(d) |-> IF d[i].k = key THEN [k |-> key, v |-> value] ELSE d[i]]
    ELSE Append(d, [k |-> key, v |-> value])

(***************************************************************************)
(* Tensor arithmetic.                                                      *)
(***************************************************************************)
RECURSIVE GCD(_, _)
GCD(a, b) == IF b = 0 THEN a ELSE GCD(b, a % b)

\* a fraction of positive integers in lowest terms
Reduce(n, d) == <<n \div GCD(n, d), d \div GCD(n, d)>>

\* (alpha / dim).sqrt() for a scalar tensor alpha: the square of the scale
ScaleSq(alpha, dim) == Reduce(alpha.v, dim)

\* weight * scale
TensorMul(weight, scale_sq) ==
    [weight EXCEPT !.sq = Reduce(weight.sq[1] * scale_sq[1], weight.sq[2] * scale_sq[2])]

(***************************************************************************)
(* convert_key_format                                                      *)
(***************************************************************************)
prefixes == <<S_diffusion_model_dot, S_transformer_dot>>

\* the for loop over prefixes[i..], leaving at the first match (break)
RECURSIVE StripFrom(_, _)
StripFrom(key, i) ==
    IF i > Len(prefixes) THEN key
    ELSE IF StartsWith(key, prefixes[i]) THEN DropFirst(key, Len(prefixes[i]))
    ELSE StripFrom(key, i + 1)

\* the loop without its break: every known prefix is stripped in turn
RECURSIVE StripAll(_, _)
StripAll(key, i) ==
    IF i > Len(prefixes) THEN key
    ELSE StripAll(IF StartsWith(key, prefixes[i]) THEN DropFirst(key, Len(prefixes[i]))
                  ELSE key, i + 1)

convert_key_format_no_break(key) == StripAll(key, 1)

convert_key_format(key) == StripFrom(key, 1)

(***************************************************************************)
(* filter_lora_keys                                                        *)
(***************************************************************************)
\* blocks_type == "single_blocks" in base_key, elif the same for
\* "double_blocks": Python chains the comparison, a == b in c being
\* (a == b) and (b in c)
\* the test read as a membership test that every selector passes
KeepsKeyAlways(base_key, blocks_type) ==
    blocks_type \in {S_all, S_single_blocks, S_double_blocks}

\* the test without the comparison of blocks_type
KeepsKeyEither(base_key, blocks_type) ==
    Contains(base_key, S_single_blocks) \/ Contains(base_key, S_double_blocks)

KeepsKey(base_key, blocks_type) ==
    \/ (blocks_type = S_single_blocks /\ Contains(base_key, S_single_blocks))
    \/ (blocks_type = S_double_blocks /\ Contains(base_key, S_double_blocks))

\* the loop over lora.items() from item i on
RECURSIVE FilterFrom(_, _, _, _)
FilterFrom(lora, blocks_type, i, filtered_lora) ==
    IF i > Len(lora) THEN filtered_lora
    ELSE FilterFrom(lora, blocks_type, i + 1,
            IF KeepsKey(convert_key_format(lora[i].k), blocks_type)
            THEN DictSet(filtered_lora, lora[i].k, lora[i].v)
            ELSE filtered_lora)

filter_lora_keys(lora, blocks_type) ==
    IF blocks_type = S_all THEN lora
    ELSE FilterFrom(lora, blocks_type, 1, <<>>)

(***************************************************************************)
(* check_for_musubi                                                        *)
(***************************************************************************)
prefix == S_lora_unet_

\* a line written by print: the fixed text and the formatted value
Printed(text, arg) == [msg |-> text, arg |-> arg]

\* key.split(".", 1)[0]
LoraNameOf(key) == BeforeFirstDot(key)

\* the first loop's condition for recording an alpha (and setting musubi)
RecordsAlpha(key, lora_alphas) ==
    /\ StartsWith(key, prefix)
    /\ ~DictHas(lora_alphas, LoraNameOf(key))
    /\ Contains(key, S_alpha)

\* the first loop from item i on: the state of (lora_alphas, musubi)
RECURSIVE ScanAlphas(_, _, _)
ScanAlphas(lora, i, st) ==
    IF i > Len(lora) THEN st
    ELSE ScanAlphas(lora, i + 1,
            IF RecordsAlpha(lora[i].k, st.lora_alphas)
            THEN [lora_alphas |-> DictSet(st.lora_alphas, LoraNameOf(lora[i].k), lora[i].v),
                  musubi |-> TRUE]
            ELSE st)

\* lora name to module name: the ordered replacements
ModuleNameOf(lora_name) ==
    LET m0 == DropFirst(lora_name, Len(prefix))
        m1 == Replace(m0, <<"_">>, <<".">>)
        m2 == Replace(m1, S_double_dot_blocks_dot, S_double_blocks_dot)
        m3 == Replace(m2, S_single_dot_blocks_dot, S_single_blocks_dot)
        m4 == Replace(m3, S_img_dot, S_img_)
        m5 == Replace(m4, S_txt_dot, S_txt_)
        m6 == Replace(m5, S_attn_dot, S_attn_)
    IN  m6

\* the role of a key: the if / elif / else on "lora_down" and "lora_up"
RoleOf(key) ==
    IF Contains(key, S_lora_down) THEN "lora_down"
    ELSE IF Contains(key, S_lora_up) THEN "lora_up"
    ELSE "none"

\* f"{diffusers_prefix}.{module_name}.lora_A.weight" (lora_B for lora_up)
NewKeyOf(lora_name, role) ==
    S_diffusion_model \o <<".">> \o ModuleNameOf(lora_name)
        \o (IF role = "lora_down" THEN S_lora_A_weight ELSE S_lora_B_weight)

\* the two axes taken the other way round
DimOfSwapped(role, weight) ==
    IF role = "lora_down" THEN weight.shape[2] ELSE weight.shape[1]

\* weight.shape[0] for lora_down, weight.shape[1] for lora_up
DimOf(role, weight) ==
    IF role = "lora_down" THEN weight.shape[1] ELSE weight.shape[2]

\* the scaling of one weight by its module's alpha, when it has one
ScaledWeight(lora_name, role, weight, lora_alphas) ==
    IF DictHas(lora_alphas, lora_name)
    THEN TensorMul(weight, ScaleSq(DictGet(lora_alphas, lora_name), DimOf(role, weight)))
    ELSE weight

\* one pass of the second loop's body on item (key, weight)
ConvertItem(key, weight, lora_alphas, st) ==
    IF ~StartsWith(key, prefix) THEN st
    ELSE IF Contains(key, S_alpha) THEN st
    ELSE LET lora_name == LoraNameOf(key)
             role == RoleOf(key)
         IN  IF role = "none"
             THEN [st EXCEPT !.out = Append(@, Printed("unexpected key", key))]
             ELSE [ret |-> DictSet(st.ret, NewKeyOf(lora_name, role),
                                   ScaledWeight(lora_name, role, weight, lora_alphas)),
                   out |-> IF DictHas(lora_alphas, lora_name) THEN st.out
                           ELSE Append(st.out, Printed("missing alpha for", lora_name))]

\* the second loop from item i on: the state of (converted_lora, stdout)
RECURSIVE ConvertFrom(_, _, _, _)
ConvertFrom(lora, lora_alphas, i, st) ==
    IF i > Len(lora) THEN st
    ELSE ConvertFrom(lora, lora_alphas, i + 1,
                     ConvertItem(lora[i].k, lora[i].v, lora_alphas, st))

\* the returned dict (ret) and the lines printed (out)
check_for_musubi(lora) ==
    LET scan == ScanAlphas(lora, 1, [lora_alphas |-> <<>>, musubi |-> FALSE])
    IN  IF scan.musubi
        THEN ConvertFrom(lora, scan.lora_alphas, 1,
                [ret |-> <<>>,
                 out |-> <<Printed("Loading Musubi Tuner format LoRA...", <<>>)>>])
        ELSE [ret |-> lora,
              out |-> <<Printed("Loading Diffusers format LoRA...", <<>>)>>]

(***************************************************************************)
(* load_lora: its collaborators and its steps.                             *)
(***************************************************************************)
\* the directory the path registry keeps LoRA files in
S_loras_dir == <<"l","o","r","a","s","/">>

\* folder_paths.get_full_path("loras", lora_name)
get_full_path(lora_name) == S_loras_dir \o lora_name

\* the test on os.path.exists(lora_path) skipped
FileMissingNever(exists) == FALSE

\* not os.path.exists(lora_path)
FileMissing(exists) == ~exists

\* f"Lora {lora_name} not found at {lora_path}"
NotFoundMessage(lora_name, lora_path) ==
    S_Lora_ \o lora_name \o S_not_found_at \o lora_path

\* the cached entry used whatever its path
CacheHitAnyPath(cache, lora_path) == cache # <<>>

\* self.loaded_lora is not None and self.loaded_lora[0] == lora_path;
\* None is the empty tuple
CacheHit(cache, lora_path) == cache # <<>> /\ cache[1] = lora_path

\* the converted dict stored in place of the deserialized one
CacheEntryConverted(lora_path, lora) == <<lora_path, check_for_musubi(lora).ret>>

\* (lora_path, lora)
CacheEntry(lora_path, lora) == <<lora_path, lora>>

\* a model handle: the base model and the patches applied to it
Model(base) == [base |-> base, patches |-> <<>>]

\* load_lora_for_models(model, None, filtered_lora, strength, 0)[0], when it
\* is not None
PatchedModel(model, filtered_lora, strength) ==
    [model EXCEPT !.patches = Append(@, [lora |-> filtered_lora, strength |-> strength])]

\* the exception of a deserializer that cannot read the file
S_load_error == <<"l","o","a","d"," ","e","r","r","o","r">>

(***************************************************************************)
(* IS_CHANGED                                                              *)
(***************************************************************************)
Digits == <<"0","1","2","3","4","5","6","7","8","9">>

\* str of a natural number
RECURSIVE NatStr(_)
NatStr(n) == IF n < 10 THEN <<Digits[n + 1]>> ELSE NatStr(n \div 10) \o <<Digits[(n % 10) + 1]>>

\* a strength is a float of the UI's grid (step 0.01), held as its number of
\* hundredths; f"{strength}" is the shortest decimal that reads back:
\* 1.0, 0.5, -1.25
FloatStr(h) ==
    LET a == IF h < 0 THEN -h ELSE h
        frac == a % 100
    IN  (IF h < 0 THEN <<"-">> ELSE <<>>) \o NatStr(a \div 100) \o <<".">>
        \o (IF frac % 10 = 0 THEN <<Digits[(frac \div 10) + 1]>>
            ELSE <<Digits[(frac \div 10) + 1], Digits[(frac % 10) + 1]>>)

\* the fingerprint without the strength
IS_CHANGED_no_strength(model, lora_name, strength, blocks_type) ==
    lora_name \o <<"_">> \o blocks_type

\* f"{lora_name}_{strength}_{blocks_type}"
IS_CHANGED(model, lora_name, strength, blocks_type) ==
    lora_name \o <<"_">> \o FloatStr(strength) \o <<"_">> \o blocks_type

(***************************************************************************)
(* The inputs the model draws.  Keys of the alternate (Musubi) format, of  *)
(* the canonical format with each known prefix, with both and with none.   *)
(***************************************************************************)
\* "lora_unet_single_blocks_0_attn_qkv.lora_down.weight"
K_single_down ==
    <<"l","o","r","a","_","u","n","e","t","_","s","i","n","g","l","e","_","b","l","o","c","k","s","_","0","_","a","t","t","n","_","q","k","v",".","l","o","r","a","_","d","o","w","n",".","w","e","i","g","h","t">>
\* "lora_unet_single_blocks_0_attn_qkv.lora_up.weight"
K_single_up ==
    <<"l","o","r","a","_","u","n","e","t","_","s","i","n","g","l","e","_","b","l","o","c","k","s","_","0","_","a","t","t","n","_","q","k","v",".","l","o","r","a","_","u","p",".","w","e","i","g","h","t">>
\* "lora_unet_single_blocks_0_attn_qkv.alpha"
K_single_alpha ==
    <<"l","o","r","a","_","u","n","e","t","_","s","i","n","g","l","e","_","b","l","o","c","k","s","_","0","_","a","t","t","n","_","q","k","v",".","a","l","p","h","a">>
\* "lora_unet_single_blocks_0_attn_qkv.lora_down.bias"
K_single_down2 ==
    <<"l","o","r","a","_","u","n","e","t","_","s","i","n","g","l","e","_","b","l","o","c","k","s","_","0","_","a","t","t","n","_","q","k","v",".","l","o","r","a","_","d","o","w","n",".","b","i","a","s">>
\* "lora_unet_double_blocks_1_img_attn_qkv.lora_down.weight"
K_double_down ==
    <<"l","o","r","a","_","u","n","e","t","_","d","o","u","b","l","e","_","b","l","o","c","k","s","_","1","_","i","m","g","_","a","t","t","n","_","q","k","v",".","l","o","r","a","_","d","o","w","n",".","w","e","i","g","h","t">>
\* "lora_unet_double_blocks_1_img_attn_qkv.lora_up.weight"
K_double_up ==
    <<"l","o","r","a","_","u","n","e","t","_","d","o","u","b","l","e","_","b","l","o","c","k","s","_","1","_","i","m","g","_","a","t","t","n","_","q","k","v",".","l","o","r","a","_","u","p",".","w","e","i","g","h","t">>
\* "lora_unet_double_blocks_1_txt_mlp_fc1.diff"
K_double_other ==
    <<"l","o","r","a","_","u","n","e","t","_","d","o","u","b","l","e","_","b","l","o","c","k","s","_","1","_","t","x","t","_","m","l","p","_","f","c","1",".","d","i","f","f">>
\* "diffusion_model.single_blocks.0.linear1.lora_A.weight"
K_canon_single ==
    <<"d","i","f","f","u","s","i","o","n","_","m","o","d","e","l",".","s","i","n","g","l","e","_","b","l","o","c","k","s",".","0",".","l","i","n","e","a","r","1",".","l","o","r","a","_","A",".","w","e","i","g","h","t">>
\* "transformer.double_blocks.1.txt_mlp.fc1.lora_B.weight"
K_canon_double ==
    <<"t","r","a","n","s","f","o","r","m","e","r",".","d","o","u","b","l","e","_","b","l","o","c","k","s",".","1",".","t","x","t","_","m","l","p",".","f","c","1",".","l","o","r","a","_","B",".","w","e","i","g","h","t">>
\* "diffusion_model.transformer.final_layer.lora_A.weight"
K_canon_final ==
    <<"d","i","f","f","u","s","i","o","n","_","m","o","d","e","l",".","t","r","a","n","s","f","o","r","m","e","r",".","f","i","n","a","l","_","l","a","y","e","r",".","l","o","r","a","_","A",".","w","e","i","g","h","t">>
\* "single_blocks.2.linear2.lora_B.weight"
K_bare_single ==
    <<"s","i","n","g","l","e","_","b","l","o","c","k","s",".","2",".","l","i","n","e","a","r","2",".","l","o","r","a","_","B",".","w","e","i","g","h","t">>
\* "transformer.diffusion_model.double_blocks.0.x"
K_twice ==
    <<"t","r","a","n","s","f","o","r","m","e","r",".","d","i","f","f","u","s","i","o","n","_","m","o","d","e","l",".","d","o","u","b","l","e","_","b","l","o","c","k","s",".","0",".","x">>

\* the keys a drawn dict may hold
DictKeys ==
    {K_single_down, K_single_up, K_single_alpha, K_single_down2, K_double_down,
     K_double_up, K_double_other, K_canon_single, K_canon_double, K_canon_final}

\* the keys convert_key_format is called with
TestKeys == DictKeys \cup {K_bare_single, K_twice, <<>>, S_transformer_dot}

\* the weight of a file's i-th item: a 2-D tensor whose two axes differ,
\* filled with i, so that no two items of a dict hold the same tensor
Weight(i) == [shape |-> <<4, 8>>, v |-> i, sq |-> <<1, 1>>]

\* scalar alphas: the first equals a weight's first axis length, which makes
\* the scale of a down-projection exactly 1
Alphas ==
    {[shape |-> <<>>, v |-> 4, sq |-> <<1, 1>>],
     [shape |-> <<>>, v |-> 1, sq |-> <<1, 1>>]}

\* a key holding "alpha" stores the scalar, any other the item's weight
ValueFor(key, i, alpha) == IF Contains(key, S_alpha) THEN alpha ELSE Weight(i)

\* the orders of n distinct keys
KeySeqs(n) == {q \in [1..n -> DictKeys] : \A i, j \in 1..n : i # j => q[i] # q[j]}

\* the dict of the keys ks, in this order
DictOf(ks, alpha) == [i \in 1..Len(ks) |-> [k |-> ks[i], v |-> ValueFor(ks[i], i, alpha)]]

\* the base models, the file names, the strength (in hundredths) and the
\* contents a file may have when it is read
Models == {Model("m1"), Model("m2")}

N_a == <<"a">>
N_b == <<"b">>
\* "a_1.0": a name that ends like a formatted strength
N_a_1_0 == <<"a","_","1",".","0">>

LoraNames == {<<>>, N_a, N_b}

Strengths == {100}

\* the scalar of the files' alpha entries
FileAlpha == [shape |-> <<>>, v |-> 1, sq |-> <<1, 1>>]

\* the files: a Musubi file or a canonical one under name a, a canonical one
\* under name b; a file may be rewritten between two reads
FileContents(lora_path) ==
    IF lora_path = get_full_path(N_a)
    THEN {DictOf(<<K_single_up, K_single_alpha>>, FileAlpha),
          DictOf(<<K_canon_double>>, FileAlpha)}
    ELSE {DictOf(<<K_canon_final, K_bare_single>>, FileAlpha)}

\* the arguments IS_CHANGED is called with
ChangedNames == {<<>>, N_a, N_a_1_0}

ChangedStrengths == {100, -125}

(***************************************************************************)
(* State.                                                                  *)
(***************************************************************************)
VARIABLES
    loaded_lora,    \* self.loaded_lora: <<>> for None, or <<lora_path, lora>>
    call,           \* the last load_lora invocation: its arguments, the cache
                    \* at entry, the collaborators it called and its outcome
    deserialized,   \* every <<lora_path, lora>> load_torch_file has returned
    fp_log,         \* the last two IS_CHANGED invocations
    fn,         \* the function last called
    arg_lora,   \* the dict the functions are called with
    arg_key,    \* the key convert_key_format is called with
    arg_bt,     \* the blocks_type of the last filter_lora_keys call
    ret,        \* what the last call returned
    stdout      \* what the last call printed

vars == <<loaded_lora, call, deserialized, fp_log, fn, arg_lora, arg_key, arg_bt, ret, stdout>>

loader_vars == <<loaded_lora, call, deserialized, fp_log>>

fn_vars == <<fn, arg_lora, arg_key, arg_bt, ret, stdout>>

\* the loader after __init__, before any invocation
InitLoader ==
    /\ loaded_lora = <<>>
    /\ call = [op |-> "none", model |-> Model("m1"), lora_name |-> <<>>, strength |-> 0,
               blocks_type |-> S_all, before |-> <<>>, path |-> <<>>, exists |-> FALSE,
               deser |-> <<>>, handed |-> <<>>, applied |-> <<>>,
               returned |-> <<>>, raised |-> <<>>]
    /\ deserialized = {}
    /\ fp_log = <<>>

(***************************************************************************)
(* The pure functions, each called once on drawn inputs.                   *)
(***************************************************************************)
InitFn ==
    /\ InitLoader
    /\ fn = "none"
    /\ \/ /\ \E n \in 0..MaxLen : \E ks \in KeySeqs(n) : \E alpha \in Alphas :
                arg_lora = DictOf(ks, alpha)
          /\ arg_key = <<>>
       \/ /\ arg_lora = <<>>
          /\ arg_key \in TestKeys
    /\ arg_bt = S_all
    /\ ret = <<>>
    /\ stdout = <<>>

Call_convert_key_format ==
    /\ fn = "none"
    /\ fn' = "convert_key_format"
    /\ ret' = convert_key_format(arg_key)
    /\ stdout' = <<>>
    /\ UNCHANGED <<arg_lora, arg_key, arg_bt>>
    /\ UNCHANGED loader_vars

Call_filter_lora_keys ==
    \E blocks_type \in BlocksTypes :
        /\ fn = "none"
        /\ fn' = "filter_lora_keys"
        /\ arg_bt' = blocks_type
        /\ ret' = filter_lora_keys(arg_lora, blocks_type)
        /\ stdout' = <<>>
        /\ UNCHANGED <<arg_lora, arg_key>>
        /\ UNCHANGED loader_vars

Call_check_for_musubi ==
    /\ fn = "none"
    /\ fn' = "check_for_musubi"
    /\ LET r == check_for_musubi(arg_lora)
       IN  ret' = r.ret /\ stdout' = r.out
    /\ UNCHANGED <<arg_lora, arg_key, arg_bt>>
    /\ UNCHANGED loader_vars

NextFn ==
    \/ Call_convert_key_format
    \/ Call_filter_lora_keys
    \/ Call_check_for_musubi

SpecFn == InitFn /\ [][NextFn]_vars

(***************************************************************************)
(* The loader: load_lora invoked again and again on one instance.          *)
(***************************************************************************)
Init ==
    /\ InitLoader
    /\ fn = "none"
    /\ arg_lora = <<>>
    /\ arg_key = <<>>
    /\ arg_bt = S_all
    /\ ret = <<>>
    /\ stdout = <<>>

\* the invocation's record before it has called anything
Entered(model, lora_name, strength, blocks_type) ==
    [op |-> "load_lora", model |-> model, lora_name |-> lora_name, strength |-> strength,
     blocks_type |-> blocks_type, before |-> loaded_lora, path |-> <<>>, exists |-> FALSE,
     deser |-> <<>>, handed |-> <<>>, applied |-> <<>>, returned |-> <<>>, raised |-> <<>>]

\* from check_for_musubi to the return, with the dict lora in hand
Applied(c, lora) ==
    LET diffusers_lora == check_for_musubi(lora).ret
        filtered_lora == filter_lora_keys(diffusers_lora, c.blocks_type)
        c1 == [c EXCEPT !.handed = <<lora>>,
                        !.applied = <<[model |-> c.model, lora |-> filtered_lora,
                                       strength |-> c.strength]>>]
    IN  \* load_lora_for_models gives a new model, or None
        \/ call' = [c1 EXCEPT !.returned = <<PatchedModel(c.model, filtered_lora, c.strength)>>]
        \/ call' = [c1 EXCEPT !.returned = <<c.model>>]

load_lora(model, lora_name, strength, blocks_type) ==
    LET c0 == Entered(model, lora_name, strength, blocks_type)
        lora_path == get_full_path(lora_name)
    IN  IF lora_name = <<>>
        THEN /\ call' = [c0 EXCEPT !.returned = <<model>>]
             /\ UNCHANGED <<loaded_lora, deserialized>>
        ELSE \E exists \in BOOLEAN :
            LET c == [c0 EXCEPT !.path = lora_path, !.exists = exists]
            IN  IF FileMissing(exists)
                THEN /\ call' = [c EXCEPT !.raised = NotFoundMessage(lora_name, lora_path)]
                     /\ UNCHANGED <<loaded_lora, deserialized>>
                ELSE IF CacheHit(loaded_lora, lora_path)
                THEN /\ Applied(c, loaded_lora[2])
                     /\ UNCHANGED <<loaded_lora, deserialized>>
                ELSE \* self.loaded_lora is None by now: load_torch_file
                     \* raises, or returns what the file holds
                     \/ /\ loaded_lora' = <<>>
                        /\ call' = [c EXCEPT !.deser = <<[path |-> lora_path, result |-> <<>>]>>,
                                             !.raised = S_load_error]
                        /\ UNCHANGED deserialized
                     \/ \E lora \in FileContents(lora_path) :
                            /\ loaded_lora' = CacheEntry(lora_path, lora)
                            /\ deserialized' = deserialized \cup {<<lora_path, lora>>}
                            /\ Applied([c EXCEPT !.deser =
                                           <<[path |-> lora_path, result |-> <<lora>>]>>], lora)

Call_load_lora ==
    \E model \in Models, lora_name \in LoraNames, strength \in Strengths,
       blocks_type \in BlocksTypes :
        /\ load_lora(model, lora_name, strength, blocks_type)
        /\ UNCHANGED fp_log
        /\ UNCHANGED fn_vars

Next == Call_load_lora

Spec == Init /\ [][Next]_vars

(***************************************************************************)
(* The host asking IS_CHANGED for the node's fingerprint, between          *)
(* invocations of load_lora on one file.                                   *)
(***************************************************************************)
\* the invocation of IS_CHANGED, with the state of the loader it was made in
Asked(model, lora_name, strength, blocks_type) ==
    [model |-> model, lora_name |-> lora_name, strength |-> strength,
     blocks_type |-> blocks_type, cached |-> loaded_lora # <<>>,
     fp |-> IS_CHANGED(model, lora_name, strength, blocks_type)]

Call_IS_CHANGED ==
    \E model \in Models, lora_name \in ChangedNames, strength \in ChangedStrengths,
       blocks_type \in BlocksTypes :
        /\ fp_log' = (IF fp_log = <<>> THEN <<>> ELSE <<fp_log[Len(fp_log)]>>)
                        \o <<Asked(model, lora_name, strength, blocks_type)>>
        /\ UNCHANGED <<loaded_lora, call, deserialized>>
        /\ UNCHANGED fn_vars

Call_load_lora_b ==
    \E strength \in Strengths :
        /\ load_lora(Model("m1"), N_b, strength, S_all)
        /\ UNCHANGED fp_log
        /\ UNCHANGED fn_vars

NextChanged ==
    \/ Call_IS_CHANGED
    \/ Call_load_lora_b

SpecChanged == Init /\ [][NextChanged]_vars

(***************************************************************************)
(* Claims about the pure functions, checked under SpecFn.                  *)
(***************************************************************************)
\* the items of the argument dict, by index
ArgIdx == 1..Len(arg_lora)

\* C7: convert_key_format strips at most one prefix: a key starting with
\* "diffusion_model." or "transformer." loses exactly the first matching
\* prefix, once, and the remainder is untouched (a second known prefix at the
\* start of the remainder stays); any other key is returned unchanged.
C7_StripsOnePrefix ==
    fn = "convert_key_format" =>
        IF StartsWith(arg_key, S_diffusion_model_dot)
        THEN arg_key = S_diffusion_model_dot \o ret
        ELSE IF StartsWith(arg_key, S_transformer_dot)
        THEN arg_key = S_transformer_dot \o ret
        ELSE ret = arg_key

\* a key with two known prefixes in a row was converted, and the second
\* one is still there
C7_Witness ==
    /\ fn = "convert_key_format"
    /\ StartsWith(arg_key, S_diffusion_model_dot)
    /\ StartsWith(ret, S_transformer_dot)

\* C2: for blocks_type "single_blocks" or "double_blocks", filter_lora_keys
\* returns exactly the items of its input (original key, same value) whose
\* normalized key contains blocks_type, and no other.
C2_FilterKeepsMarked ==
    (fn = "filter_lora_keys" /\ arg_bt # S_all) =>
        ret = SelectSeq(arg_lora, LAMBDA it : Contains(convert_key_format(it.k), arg_bt))

\* a filter call that kept some items and dropped others
C2_Witness ==
    /\ fn = "filter_lora_keys"
    /\ arg_bt = S_double_blocks
    /\ Len(ret) > 0
    /\ Len(ret) < Len(arg_lora)

\* C9 as stated: for every selector other than "all", filter_lora_keys
\* returns all items of its input.
C9_FilterIsNoOp ==
    (fn = "filter_lora_keys" /\ arg_bt # S_all) => ret = arg_lora

\* C9 as amended: for a selector other than "all" the filter returns all
\* items of its input only when every normalized key contains the selector;
\* as soon as one does not, the result is strictly smaller than the input and
\* holds no such item.
C9_NoOpOnlyWhenAllMatch ==
    (fn = "filter_lora_keys" /\ arg_bt # S_all) =>
        /\ (ret = arg_lora) <=>
              \A i \in ArgIdx : Contains(convert_key_format(arg_lora[i].k), arg_bt)
        /\ \A i \in ArgIdx :
              ~Contains(convert_key_format(arg_lora[i].k), arg_bt) =>
                  Len(ret) < Len(arg_lora) /\ ~DictHas(ret, arg_lora[i].k)

\* a filter call with selector "single_blocks" that dropped an item
C9_Witness ==
    /\ fn = "filter_lora_keys"
    /\ arg_bt = S_single_blocks
    /\ ret # arg_lora

(***************************************************************************)
(* Claims about check_for_musubi, checked under SpecFn.                    *)
(***************************************************************************)
\* "diffusion_model.single_blocks.0.attn_qkv.lora_A.weight"
K_expect_A ==
    <<"d","i","f","f","u","s","i","o","n","_","m","o","d","e","l",".","s","i","n","g","l","e","_","b","l","o","c","k","s",".","0",".","a","t","t","n","_","q","k","v",".","l","o","r","a","_","A",".","w","e","i","g","h","t">>
\* "diffusion_model.single_blocks.0.attn_qkv.lora_B.weight"
K_expect_B ==
    <<"d","i","f","f","u","s","i","o","n","_","m","o","d","e","l",".","s","i","n","g","l","e","_","b","l","o","c","k","s",".","0",".","a","t","t","n","_","q","k","v",".","l","o","r","a","_","B",".","w","e","i","g","h","t">>

\* the call printed that it converts
ConversionTaken ==
    fn = "check_for_musubi" /\ stdout[1].msg = "Loading Musubi Tuner format LoRA..."

\* the argument holds a key starting with "lora_unet_"
HasSentinelKey == \E i \in ArgIdx : StartsWith(arg_lora[i].k, S_lora_unet_)

\* item i is a sentinel-prefixed, non-alpha key with a projection role
IsProjection(i) ==
    /\ StartsWith(arg_lora[i].k, S_lora_unet_)
    /\ ~Contains(arg_lora[i].k, S_alpha)
    /\ (Contains(arg_lora[i].k, S_lora_down) \/ Contains(arg_lora[i].k, S_lora_up))

\* the module of a key: the part before its first dot
ModuleOf(key) == BeforeFirstDot(key)

\* the items that are alpha entries of module m
AlphaItems(m) ==
    {i \in ArgIdx : /\ StartsWith(arg_lora[i].k, S_lora_unet_)
                    /\ Contains(arg_lora[i].k, S_alpha)
                    /\ ModuleOf(arg_lora[i].k) = m}

\* the output key the claims give for a projection key
ExpectedKey(key) ==
    LET n0 == DropFirst(ModuleOf(key), Len(S_lora_unet_))
        n1 == Replace(n0, <<"_">>, <<".">>)
        n2 == Replace(n1, S_double_dot_blocks_dot, S_double_blocks_dot)
        n3 == Replace(n2, S_single_dot_blocks_dot, S_single_blocks_dot)
        n4 == Replace(n3, S_img_dot, S_img_)
        n5 == Replace(n4, S_txt_dot, S_txt_)
        n6 == Replace(n5, S_attn_dot, S_attn_)
    IN  S_diffusion_model \o <<".">> \o n6
            \o (IF Contains(key, S_lora_down) THEN S_lora_A_weight ELSE S_lora_B_weight)

\* the scale dimension the claims give: first axis for a down-projection,
\* second axis for an up-projection
ExpectedDim(key, w) == IF Contains(key, S_lora_down) THEN w.shape[1] ELSE w.shape[2]

\* tensor out is tensor w times sqrt(a / d): the same shape and base value,
\* and the square of the factor is the fraction a / d in lowest terms
IsScaled(out, w, a, d) ==
    /\ out.shape = w.shape
    /\ out.v = w.v
    /\ out.sq[1] * d = out.sq[2] * a
    /\ \A g \in 2..(a + d) : ~(out.sq[1] % g = 0 /\ out.sq[2] % g = 0)

\* the value the claims give for projection item i: rescaled by its module's
\* (first) alpha when there is one, the input tensor itself otherwise
HasExpectedValue(out, i) ==
    LET al == AlphaItems(ModuleOf(arg_lora[i].k))
    IN  IF al = {} THEN out = arg_lora[i].v
        ELSE IsScaled(out, arg_lora[i].v,
                      arg_lora[CHOOSE j \in al : \A h \in al : j <= h].v.v,
                      ExpectedDim(arg_lora[i].k, arg_lora[i].v))

\* C3 as stated: check_for_musubi takes the conversion path if and only if
\* its input holds a key starting with "lora_unet_", and returns its input
\* unchanged when there is none.
C3_FormatBySentinel ==
    fn = "check_for_musubi" =>
        /\ ConversionTaken <=> HasSentinelKey
        /\ ~HasSentinelKey => ret = arg_lora

MissingAlphaLines(m) ==
    {j \in 1..Len(stdout) : stdout[j].msg = "missing alpha for" /\ stdout[j].arg = m}

\* C5 as stated: for an input in the alternate format, every module without
\* an alpha entry yields its output tensors unscaled, and exactly one "missing
\* alpha" line is printed for that module.
C5_MissingAlphaOncePerModule ==
    (fn = "check_for_musubi" /\ HasSentinelKey) =>
        \A i \in ArgIdx :
            (IsProjection(i) /\ AlphaItems(ModuleOf(arg_lora[i].k)) = {}) =>
                /\ Cardinality(MissingAlphaLines(ModuleOf(arg_lora[i].k))) = 1
                /\ DictHas(ret, ExpectedKey(arg_lora[i].k))
                /\ DictGet(ret, ExpectedKey(arg_lora[i].k)) = arg_lora[i].v

(***************************************************************************)
(* Claims about load_lora, checked under Spec.                             *)
(***************************************************************************)
\* the last invocation got past the empty-name return with a file that exists
Loaded == call.op = "load_lora" /\ call.lora_name # <<>> /\ call.exists

\* the cache at entry held no entry for the requested path
Missed == call.before = <<>> \/ call.before[1] # call.path

\* C1: in an invocation whose file exists, load_torch_file is called exactly
\* when the cache is empty or holds another path, and then once; a request
\* for the cached path uses the cached dict and leaves the entry alone, a
\* request for another path replaces the entry by (path, the dict read).
C1_DeserializesOnMissOnly ==
    Loaded =>
        /\ Len(call.deser) = (IF Missed THEN 1 ELSE 0)
        /\ ~Missed => /\ call.handed = <<call.before[2]>>
                      /\ loaded_lora = call.before
        /\ Missed => /\ call.deser[1].path = call.path
                     /\ call.deser[1].result # <<>> =>
                           /\ loaded_lora = <<call.path, call.deser[1].result[1]>>
                           /\ call.handed = call.deser[1].result

\* a request for another path than the cached one replaced the entry
C1_Witness ==
    /\ Loaded
    /\ call.before # <<>>
    /\ call.before[1] # call.path
    /\ loaded_lora # <<>>
    /\ loaded_lora[1] = call.path
    /\ loaded_lora # call.before

\* C6: when the resolved path does not exist, load_lora raises an exception
\* naming lora_name and the resolved path ("Lora <name> not found at
\* <path>"), calls neither the deserializer nor
\* the model-patch applicator, and leaves loaded_lora as it was.
C6_MissingFileRaises ==
    (call.op = "load_lora" /\ call.lora_name # <<>> /\ ~call.exists) =>
        /\ call.raised # <<>>
        /\ call.returned = <<>>
        /\ call.path = S_loras_dir \o call.lora_name
        /\ call.raised = S_Lora_ \o call.lora_name \o S_not_found_at \o call.path
        /\ call.deser = <<>>
        /\ call.applied = <<>>
        /\ loaded_lora = call.before

\* a missing file was requested while the cache held an entry
C6_Witness ==
    /\ call.op = "load_lora"
    /\ call.lora_name # <<>>
    /\ ~call.exists
    /\ call.raised # <<>>
    /\ call.before # <<>>

\* C10: loaded_lora is None or a pair (P, m) with m a dict the deserializer
\* returned for P, as it returned it; and the dict handed to check_for_musubi
\* is one deserialized for the path of that invocation.
C10_CacheHoldsWhatWasRead ==
    /\ loaded_lora # <<>> =>
          /\ Len(loaded_lora) = 2
          /\ <<loaded_lora[1], loaded_lora[2]>> \in deserialized
    /\ (call.op = "load_lora" /\ call.handed # <<>>) =>
          /\ <<call.path, call.handed[1]>> \in deserialized
          /\ call.path = S_loras_dir \o call.lora_name

\* a Musubi file was converted and filtered for the model, and the cache
\* still holds the dict as it was read
C10_Witness ==
    /\ call.op = "load_lora"
    /\ call.handed # <<>>
    /\ call.applied # <<>>
    /\ call.applied[1].lora # call.handed[1]
    /\ loaded_lora = <<call.path, call.handed[1]>>

(***************************************************************************)
(* The claim about IS_CHANGED, checked under SpecChanged.                  *)
(***************************************************************************)
\* two invocations agree on (lora_name, strength, blocks_type)
SameTriple(a, b) ==
    /\ a.lora_name = b.lora_name
    /\ a.strength = b.strength
    /\ a.blocks_type = b.blocks_type

\* C8: two invocations of IS_CHANGED return the same fingerprint exactly when
\* they agree on (lora_name, strength, blocks_type), whatever the model and
\* the state of the loader.
C8_FingerprintOfTriple ==
    \A i, j \in 1..Len(fp_log) :
        SameTriple(fp_log[i], fp_log[j]) <=> fp_log[i].fp = fp_log[j].fp

\* the same triple asked with another model, before and after a file was
\* cached, gave the same fingerprint
C8_Witness ==
    /\ Len(fp_log) = 2
    /\ SameTriple(fp_log[1], fp_log[2])
    /\ fp_log[1].model # fp_log[2].model
    /\ fp_log[1].cached # fp_log[2].cached
    /\ fp_log[1].fp = fp_log[2].fp

====
